---------------------------- MODULE Spec2Model ----------------------------
(***************************************************************************)
(* CurlyDL: segmented, concurrent file downloader.                         *)
(*                                                                         *)
(* The specifications of this module share its variables:                  *)
(*   SpecPlan    the segmentation planner (engine.py 111-123), a pure      *)
(*               function applied to a bounded set of resource sizes;      *)
(*   SpecLedger  concurrent MetadataManager.update_progress calls          *)
(*               (metadata.py 52-69, 115-135) at the granularity of the    *)
(*               dictionary reads and writes they perform;                 *)
(*   SpecRetry   one ErrorHandler.retry_with_backoff call;                 *)
(*   Spec        the engine with one download: start_download, the         *)
(*               coordinator task, the segment tasks with their transport  *)
(*               callbacks, cancel_download, shutdown, the scratch file    *)
(*               and the ledger;                                           *)
(*   SpecManager the engine behind the DownloadManager facade;             *)
(*   SpecTwo     two downloads on one engine;                              *)
(*   SpecDest    a download to a path that may hold a file already;        *)
(*   SpecPool    pools of several sizes, with fair scheduling;             *)
(*   SpecRace    two segment tasks writing through the shared handle;      *)
(*   SpecSpeed   a download while the clock moves on.                      *)
(* Each specification leaves the variables of the others untouched.        *)
(***************************************************************************)
EXTENDS Integers, Sequences, FiniteSets, TLC

\* the planner's input, its output, and whether it has run (SpecPlan)
VARIABLES planTotal, planOut, planDone

varsPlan == <<planTotal, planOut, planDone>>

\* the ledger's dictionary objects, the cache entry, the ranges, and each
\* thread's position and the object it holds (SpecLedger)
VARIABLES lgHeap, lgCache, lgRanges, lgPc, lgRef

varsLedger == <<lgHeap, lgCache, lgRanges, lgPc, lgRef>>

\* the engine (Spec)
VARIABLES
    active,      \* DownloadEngine._active_downloads
    futures,     \* DownloadEngine._futures: 0 is the coordinator's future,
                 \* k >= 1 the future of the k-th submitted segment task
    bytesDl,     \* DownloadEngine._bytes_downloaded
    pool,        \* the executor: "open" or "shutdown"
    meta,        \* MetadataManager._metadata_cache
    scratch,     \* the data files under downloads_temp/<id>/
    handles,     \* FileSystemManager._segment_files (open handles)
    outPaths,    \* FileSystemManager._output_paths
    dest,        \* the files at the destination paths
    call,        \* the caller's position in start_download, per id
    coord,       \* the coordinator task (_download_task), per id
    segs,        \* the submitted segment tasks (_download_segment), per id
    shut,        \* the position of the thread calling shutdown()
    finalizeCalls,  \* history: calls of assemble_file, per id
    cancelHist,     \* history: cancel_download calls, per id
    speeds,      \* DownloadEngine._download_speeds, each speed the exact
                 \* rational <<bytes, clock ticks>>
    lateStart,   \* history: ids whose start_download began after shutdown()
    probed,      \* history: what the size probe of start_download returned
    mgrActive,   \* DownloadManager._active_downloads
    filePos,     \* the position of each open scratch file handle
    now,         \* what time.time() returns, in clock ticks
    lastUpdate,  \* DownloadEngine._last_update_time
    received,    \* history: the bytes the write callbacks of a download
                 \* have taken so far
    recomputed   \* history: per id, the time and the bytes received so far
                 \* at the start and at each recomputation of the speed

varsEngine ==
    <<active, futures, bytesDl, pool, meta, scratch, handles, outPaths, dest,
      call, coord, segs, shut, finalizeCalls, cancelHist, speeds, lateStart,
      probed, mgrActive, filePos, now, lastUpdate, received, recomputed>>

\* the surroundings of a run, fixed at its start: the ids the caller starts,
\* the sizes the server may report to a probe, the ids whose destination
\* path holds a file before the download is started, the size the engine's
\* pool was built with, and whether the runs include those in which the
\* write_segment calls of one download overlap in time
VARIABLES startable, remote, preexisting, workers, overlap

varsEnv == <<startable, remote, preexisting, workers, overlap>>

\* one retry_with_backoff call (SpecRetry)
VARIABLES rtMax, rtPc, rtAttempt, rtLastError, rtResult, rtLog

varsRetry == <<rtMax, rtPc, rtAttempt, rtLastError, rtResult, rtLog>>

\* what an engine action leaves alone besides the engine's own variables
varsAside == <<varsPlan, varsLedger, varsRetry, varsEnv>>

vars == <<varsEngine, varsEnv, varsPlan, varsLedger, varsRetry>>

\* 1024 * 1024, the planner's threshold and minimum segment size
MiB == 1048576

\* the planner's target number of segments (total_size // 8)
TargetSegments == 8

Min(a, b) == IF a <= b THEN a ELSE b

Max(a, b) == IF a >= b THEN a ELSE b

(***************************************************************************)
(* Segmentation planner                                                    *)
(***************************************************************************)

_calculate_segment_size_halved(total_size) ==
    IF total_size <= MiB
    THEN total_size
    ELSE Max(MiB, total_size \div (2 * TargetSegments))

_calculate_segment_size_nofloor(total_size) ==
    IF total_size <= MiB THEN total_size ELSE total_size \div TargetSegments

\* engine.py 111-115
_calculate_segment_size(total_size) ==
    IF total_size <= MiB
    THEN total_size
    ELSE Max(MiB, total_size \div TargetSegments)

\* the values of range(0, stop, step), in order
RangeStarts(stop, step) ==
    [k \in 1..((stop + step - 1) \div step) |-> (k - 1) * step]

_create_segments_inclusive(total_size, segment_size) ==
    LET starts == RangeStarts(total_size + 1, segment_size)
    IN  [k \in 1..Len(starts) |->
            [start |-> starts[k],
             end   |-> Min(starts[k] + segment_size - 1, total_size - 1)]]

\* engine.py 117-123
_create_segments(total_size, segment_size) ==
    LET starts == RangeStarts(total_size, segment_size)
    IN  [k \in 1..Len(starts) |->
            [start |-> starts[k],
             end   |-> Min(starts[k] + segment_size - 1, total_size - 1)]]

\* engine.py 228-229: the plan the coordinator executes
Plan(total_size) ==
    _create_segments(total_size, _calculate_segment_size(total_size))

SegLen(seg) == seg.end - seg.start + 1

\* sizes tried: m MiB + r for m in 0..MaxPlanMiB and |r| <= MaxPlanRem
MaxPlanMiB == 17

MaxPlanRem == 4

PlanSizes ==
    {t \in {m * MiB + r : m \in 0..MaxPlanMiB, r \in (0 - MaxPlanRem)..MaxPlanRem} :
        t >= 1}

InitPlan ==
    /\ planTotal \in PlanSizes
    /\ planOut = <<>>
    /\ planDone = FALSE

IdlePlan ==
    /\ planTotal = 0
    /\ planOut = <<>>
    /\ planDone = TRUE

\* one call of the planner on the chosen size
RunPlan ==
    /\ ~planDone
    /\ planOut' = Plan(planTotal)
    /\ planDone' = TRUE
    /\ UNCHANGED <<planTotal, varsEngine, varsLedger, varsRetry, varsEnv>>


(***************************************************************************)
(* Progress ledger (MetadataManager)                                       *)
(***************************************************************************)

\* metadata.py 26-35: the record create_download stores (url, output_path
\* and the timestamps play no part in any operation modelled here)
NewMetadata ==
    [total_size |-> 0, downloaded_bytes |-> 0, status |-> "initializing"]

\* metadata.py 47-50
update_total_size(m, size) == [m EXCEPT !.total_size = size]

\* metadata.py 62-66, run without interruption
update_progress(m, start, end) ==
    [m EXCEPT !.downloaded_bytes = @ + (end - start + 1)]

\* metadata.py 106-109
mark_complete(m) == [m EXCEPT !.status = "complete"]

\* metadata.py 96-97
is_complete(m) == m.status = "complete"

\* A percentage is the exact rational <<numerator, denominator>>.
RatLeq(a, b) == a[1] * b[2] <= b[1] * a[2]

RatMin(a, b) == IF RatLeq(a, b) THEN a ELSE b

get_progress_unclamped(m) ==
    IF m.total_size = 0
    THEN <<0, 1>>
    ELSE <<m.downloaded_bytes * 100, m.total_size>>

\* metadata.py 81-84
get_progress(m) ==
    IF m.total_size = 0
    THEN <<0, 1>>
    ELSE RatMin(<<100, 1>>, <<m.downloaded_bytes * 100, m.total_size>>)

IsHundred(p) == p[1] = 100 * p[2]

(***************************************************************************)
(* SpecLedger: one update_progress(start, end) call per range of a         *)
(* partition of [0, total), each from its own thread.  The cache holds a   *)
(* reference to a dictionary object; _get_metadata hands that reference    *)
(* out, += updates the object, _save_metadata replaces the cache entry by  *)
(* a copy of the object.  No lock is taken anywhere in metadata.py, so     *)
(* the threads interleave between these three statements (each += is kept  *)
(* indivisible: the interleavings explored are a subset of the real ones). *)
(***************************************************************************)
MaxLedgerTotal == 4

MaxLedgerThreads == 3

\* the ranges cut out of [0, total) by the cut points `cuts`
RangesOf(total, cuts) ==
    {[start |-> s,
      end   |-> (CHOOSE p \in cuts \cup {total} :
                    /\ p > s
                    /\ \A q \in cuts \cup {total} : q > s => p <= q) - 1] :
        s \in cuts \cup {0}}

LedgerThreads == {r.start : r \in lgRanges}

RangeOfThread(t) == CHOOSE r \in lgRanges : r.start = t

LedgerTotal == lgHeap[1].total_size

InitLedger ==
    /\ \E total \in 1..MaxLedgerTotal :
       \E cuts \in SUBSET (1..(total - 1)) :
          /\ Cardinality(cuts) < MaxLedgerThreads
          /\ lgRanges = RangesOf(total, cuts)
          /\ lgHeap = <<update_total_size(NewMetadata, total)>>
    /\ lgCache = 1
    /\ lgPc = [t \in LedgerThreads |-> "get"]
    /\ lgRef = [t \in LedgerThreads |-> 0]

IdleLedger ==
    /\ lgHeap = <<>>
    /\ lgCache = 0
    /\ lgRanges = {}
    /\ lgPc = <<>>
    /\ lgRef = <<>>

\* metadata.py 62, 127-135: metadata = self._get_metadata(download_id)
LedgerGet(t) ==
    /\ lgPc[t] = "get"
    /\ lgRef' = [lgRef EXCEPT ![t] = lgCache]
    /\ lgPc' = [lgPc EXCEPT ![t] = "add"]
    /\ UNCHANGED <<lgHeap, lgCache, lgRanges, varsEngine, varsPlan, varsRetry, varsEnv>>

\* metadata.py 63-64: metadata["downloaded_bytes"] += segment_size, on the
\* object the thread holds (no other thread runs inside this statement)
LedgerAdd(t) ==
    /\ lgPc[t] = "add"
    /\ lgHeap' = [lgHeap EXCEPT ![lgRef[t]] =
                      update_progress(@, RangeOfThread(t).start, RangeOfThread(t).end)]
    /\ lgPc' = [lgPc EXCEPT ![t] = "save"]
    /\ UNCHANGED <<lgCache, lgRanges, lgRef, varsEngine, varsPlan, varsRetry, varsEnv>>

\* metadata.py 66, 118: self._metadata_cache[download_id] = metadata.copy()
LedgerSave(t) ==
    /\ lgPc[t] = "save"
    /\ lgHeap' = Append(lgHeap, lgHeap[lgRef[t]])
    /\ lgCache' = Len(lgHeap) + 1
    /\ lgPc' = [lgPc EXCEPT ![t] = "done"]
    /\ UNCHANGED <<lgRanges, lgRef, varsEngine, varsPlan, varsRetry, varsEnv>>

LedgerAllDone ==
    /\ lgRanges # {}
    /\ \A t \in LedgerThreads : lgPc[t] = "done"


(***************************************************************************)
(* SpecRetry: one call retry_with_backoff(func) of an ErrorHandler built    *)
(* with max_retries = rtMax (error_handler.py 35-69).  Each call of func    *)
(* returns a value or raises an Exception of some kind.  rtLog lists the    *)
(* calls of func and the sleeps in the order they happen; a result or an    *)
(* error is identified by the number (from 1) of the call it came from,     *)
(* 0 standing for None.                                                     *)
(***************************************************************************)
\* largest max_retries tried
MaxRetryLimit == 4

\* the kinds of Exception func may raise
ErrorKinds == {"timeout", "reset"}

\* how the call ended: still running, returned the result of call `call`
\* (None for 0), or raised the error of call `call`
Running0 == [how |-> "running", call |-> 0]

wait_time_linear(attempt) == (2 * attempt) + 1

\* error_handler.py 57
wait_time(attempt) == (2 ^ attempt) + 1

\* error_handler.py 50 and 18
InitRetry ==
    /\ rtMax \in 0..MaxRetryLimit
    /\ rtPc = "loop"
    /\ rtAttempt = 0
    /\ rtLastError = 0
    /\ rtResult = Running0
    /\ rtLog = <<>>

\* error_handler.py 51-56, 62-66: the next value of range(max_retries), the
\* call of func, and what follows at once: the return of its result, or the
\* record of its error and the choice between sleeping and logging
RetryAttempt ==
    /\ rtPc = "loop"
    /\ rtAttempt < rtMax
    /\ \E out \in {"ok"} \cup ErrorKinds :
        /\ rtLog' = Append(rtLog, [ev |-> "call", out |-> out, secs |-> 0])
        /\ IF out = "ok"
           THEN /\ rtResult' = [how |-> "returned", call |-> rtAttempt + 1]
                /\ rtPc' = "done"
                /\ UNCHANGED <<rtLastError, rtAttempt>>
           ELSE /\ rtLastError' = rtAttempt + 1
                /\ IF rtAttempt < rtMax - 1
                   THEN /\ rtPc' = "sleep"
                        /\ UNCHANGED rtAttempt
                   ELSE /\ rtPc' = "loop"
                        /\ rtAttempt' = rtAttempt + 1
                /\ UNCHANGED rtResult
    /\ UNCHANGED <<rtMax, varsEngine, varsEnv, varsPlan, varsLedger>>

\* error_handler.py 57-61: time.sleep(wait_time), then the next iteration
RetrySleep ==
    /\ rtPc = "sleep"
    /\ rtLog' = Append(rtLog, [ev |-> "sleep", out |-> "None", secs |-> wait_time(rtAttempt)])
    /\ rtAttempt' = rtAttempt + 1
    /\ rtPc' = "loop"
    /\ UNCHANGED <<rtMax, rtLastError, rtResult, varsEngine, varsEnv, varsPlan, varsLedger>>

\* error_handler.py 68-69: the loop is over; raise last_error if there is
\* one, else fall off the end of the function, which returns None
RetryExit ==
    /\ rtPc = "loop"
    /\ rtAttempt >= rtMax
    /\ rtResult' = IF rtLastError # 0
                   THEN [how |-> "raised", call |-> rtLastError]
                   ELSE [how |-> "returned", call |-> 0]
    /\ rtPc' = "done"
    /\ UNCHANGED <<rtMax, rtAttempt, rtLastError, rtLog, varsEngine, varsEnv, varsPlan, varsLedger>>

(***************************************************************************)
(* Scratch and destination files                                           *)
(*                                                                         *)
(* A file is a set of extents [off, len, src]: the len bytes at file       *)
(* offset off are the bytes src .. src+len-1 of the remote resource.  The  *)
(* extents of a file never overlap; offsets below the file size that no    *)
(* extent covers are holes.  The remote resource's byte i is identified    *)
(* with its index i, so a byte of the file is right exactly when           *)
(* ByteAt(file, i) = i.                                                    *)
(***************************************************************************)
\* what a read of a never-written offset yields: no byte of the resource
Hole == 0 - 1

ExtentEnd(e) == e.off + e.len

\* what is left of extent e once [off, off+len) has been overwritten
Remains(e, off, len) ==
    (IF e.off < off
     THEN {[off |-> e.off, len |-> Min(e.len, off - e.off), src |-> e.src]}
     ELSE {})
    \cup
    (IF ExtentEnd(e) > off + len
     THEN LET o == Max(e.off, off + len)
          IN  {[off |-> o, len |-> ExtentEnd(e) - o, src |-> e.src + (o - e.off)]}
     ELSE {})

\* filesystem.py 52-57: f.write(data) with the handle's position at
\* `offset`, data being the remote bytes src .. src+len-1
SeekWrite(file, offset, src, len) ==
    UNION {Remains(e, offset, len) : e \in file}
        \cup {[off |-> offset, len |-> len, src |-> src]}

FileSize(file) ==
    IF file = {} THEN 0
    ELSE LET e == CHOOSE x \in file : \A y \in file : ExtentEnd(y) <= ExtentEnd(x)
         IN  ExtentEnd(e)

ByteAt(file, i) ==
    IF \E e \in file : e.off <= i /\ i < ExtentEnd(e)
    THEN LET e == CHOOSE x \in file : x.off <= i /\ i < ExtentEnd(x)
         IN  e.src + (i - e.off)
    ELSE Hole

\* ByteAt(file, i) - i is constant between two consecutive offsets of this
\* set, so the bytes of [lo, hi) are all right when these are.
Breakpoints(file, lo, hi) ==
    {i \in {lo, hi - 1} \cup UNION {{e.off, ExtentEnd(e) - 1, ExtentEnd(e)} : e \in file} :
        lo <= i /\ i < hi}

RegionMatchesRemote(file, lo, hi) ==
    \A i \in Breakpoints(file, lo, hi) : ByteAt(file, i) = i

(***************************************************************************)
(* Engine                                                                  *)
(***************************************************************************)
\* most data chunks the transport splits one segment body into
MaxChunks == 2

\* most progress callbacks with a known total during one segment fetch
MaxProgress == 2

\* DownloadManager's default pool size
max_workers == 4

\* the download ids; a run starts those of `startable`
Ids == {1, 2}

\* what a size probe may return: 0 stands for every failure
\* (status other than 200, no content length, connection error)
ProbeResults == {0, 3, MiB + 1}

\* the probe results of the runs with two downloads
TwoProbeResults == {1}

\* the probe results of the runs with a file at the destination path
DestProbeResults == {0, 3}

\* the probe results of the runs through the DownloadManager facade
ManagerProbeResults == {0, 3}

EmptyMap == [x \in {} |-> 0]

ProbeFailsOnNegativeOnly(size) == size < 0

\* engine.py 65: if total_size <= 0
ProbeFails(size) == size <= 0

Pop(f, d) == [x \in (DOMAIN f) \ {d} |-> f[x]]

Put(f, d, v) == [x \in (DOMAIN f) \cup {d} |-> IF x = d THEN v ELSE f[x]]

Get(f, d, default) == IF d \in DOMAIN f THEN f[d] ELSE default

\* self._active_downloads.get(download_id, False)
IsActive(d) == Get(active, d, FALSE)

CoordIdle == [pc |-> "none", total |-> 0, plan |-> <<>>, j |-> 1, err |-> FALSE]

RunningPcs ==
    {"submit_check", "submit_do", "wait_check", "wait_result",
     "final_check", "assemble", "mark", "finally"}

\* tasks that occupy a worker thread of the pool
Running ==
    Cardinality({d \in Ids : coord[d].pc \in RunningPcs})
      + Cardinality(UNION {{<<d, k>> : k \in {i \in 1..Len(segs[d]) :
                                                   segs[d][i].st = "fetching"}} :
                             d \in Ids})

\* engine.py 25: ThreadPoolExecutor(max_workers=max_workers)
WorkerFree == Running < workers

\* Future.cancel(): a pending task is cancelled, a running or finished one
\* is left alone
CancelSegs(ss, ks) ==
    [k \in 1..Len(ss) |->
        IF k \in ks /\ ss[k].st = "pending"
        THEN [ss[k] EXCEPT !.st = "cancelled"]
        ELSE ss[k]]

CancelCoord(c, ks) ==
    IF 0 \in ks /\ c.pc = "queued" THEN [c EXCEPT !.pc = "cancelled"] ELSE c

InitEngine ==
    /\ active = EmptyMap
    /\ futures = EmptyMap
    /\ bytesDl = EmptyMap
    /\ pool = "open"
    /\ meta = EmptyMap
    /\ scratch = EmptyMap
    /\ handles = {}
    /\ outPaths = {}
    /\ dest = EmptyMap
    /\ call = [d \in Ids |-> "new"]
    /\ coord = [d \in Ids |-> CoordIdle]
    /\ segs = [d \in Ids |-> <<>>]
    /\ shut = "idle"
    /\ finalizeCalls = [d \in Ids |-> 0]
    /\ cancelHist = [d \in Ids |-> "never"]
    /\ speeds = EmptyMap
    /\ lateStart = {}
    /\ probed = EmptyMap
    /\ mgrActive = EmptyMap
    /\ filePos = EmptyMap
    /\ now = 0
    /\ lastUpdate = EmptyMap
    /\ received = [d \in Ids |-> 0]
    /\ recomputed = [d \in Ids |-> <<>>]


(***************************************************************************)
(* start_download, on the caller's thread                                  *)
(***************************************************************************)

\* engine.py 52-71: register the id, create the ledger record, prepare the
\* scratch file (filesystem.py 27-35), probe the size (_get_file_size,
\* 80-109, returning `size`), record it, submit the coordinator task.
\* Ids are fresh (uuid4): they are handed out in order.
StartDownload(d) ==
    /\ call[d] = "new"
    /\ d \in startable
    /\ \A e \in startable : e < d => call[e] # "new"
    /\ \E size \in remote :
        /\ active' = Put(active, d, TRUE)
        /\ futures' = Put(futures, d, {})
        /\ speeds' = Put(speeds, d, <<0, 1>>)
        /\ lastUpdate' = Put(lastUpdate, d, now)
        /\ recomputed' = [recomputed EXCEPT ![d] = <<[at |-> now, bytes |-> 0]>>]
        /\ bytesDl' = Put(bytesDl, d, 0)
        /\ scratch' = Put(scratch, d, {})
        /\ handles' = handles \cup {d}
        /\ filePos' = Put(filePos, d, 0)
        /\ outPaths' = outPaths \cup {d}
        /\ IF ProbeFails(size)
           THEN \* 65-66, 76-78: raise before update_total_size
                /\ meta' = Put(meta, d, NewMetadata)
                /\ call' = [call EXCEPT ![d] = "raised_probe"]
                /\ UNCHANGED coord
           ELSE /\ meta' = Put(meta, d, update_total_size(NewMetadata, size))
                /\ IF pool = "shutdown"
                   THEN \* submit raises RuntimeError after executor.shutdown
                        /\ call' = [call EXCEPT ![d] = "raised"]
                        /\ UNCHANGED coord
                   ELSE /\ call' = [call EXCEPT ![d] = "submitted"]
                        /\ coord' = [coord EXCEPT ![d].pc = "queued"]
        /\ probed' = Put(probed, d, size)
    /\ lateStart' = IF shut = "idle" THEN lateStart ELSE lateStart \cup {d}
    /\ UNCHANGED <<varsAside, now, received, mgrActive, pool, dest, segs, shut, finalizeCalls, cancelHist>>

\* engine.py 72-78: self._futures[download_id].append(future); a KeyError
\* when the entry is gone is re-raised to the caller
StartRecord(d) ==
    /\ call[d] = "submitted"
    /\ IF d \in DOMAIN futures
       THEN /\ futures' = [futures EXCEPT ![d] = @ \cup {0}]
            /\ call' = [call EXCEPT ![d] = "returned"]
       ELSE /\ call' = [call EXCEPT ![d] = "raised"]
            /\ UNCHANGED futures
    /\ UNCHANGED <<varsAside, now, lastUpdate, received, recomputed, filePos, mgrActive, speeds, lateStart, probed, active, bytesDl, pool, meta, scratch, handles, outPaths,
                   dest, coord, segs, shut, finalizeCalls, cancelHist>>

(***************************************************************************)
(* cancel_download and shutdown, on a caller's thread                      *)
(***************************************************************************)

\* what cancel_download reads and writes: the flags, the futures recorded
\* per id, and the tasks behind those futures
EngineView == [active |-> active, futures |-> futures, coord |-> coord, segs |-> segs]

cancel_download_everyone(s, d) ==
    IF d \in DOMAIN s.active
    THEN [s EXCEPT !.active = [x \in DOMAIN @ |-> FALSE],
                   !.coord[d] = CancelCoord(@, Get(s.futures, d, {})),
                   !.segs[d] = CancelSegs(@, Get(s.futures, d, {}))]
    ELSE s

\* engine.py 294-299, under the lock
cancel_download(s, d) ==
    IF d \in DOMAIN s.active
    THEN [s EXCEPT !.active[d] = FALSE,
                   !.coord[d] = CancelCoord(@, Get(s.futures, d, {})),
                   !.segs[d] = CancelSegs(@, Get(s.futures, d, {}))]
    ELSE s

\* history: whether a cancel came before any call of assemble_file
Cancelled(hist, d) ==
    [hist EXCEPT ![d] =
        IF finalizeCalls[d] = 0 THEN "before_finalize"
        ELSE IF @ = "never" THEN "after_finalize" ELSE @]

\* DownloadEngine.cancel_download(d), called on the engine
CancelDownload(d) ==
    /\ call[d] # "new"
    /\ LET s == cancel_download(EngineView, d)
       IN  /\ active' = s.active
           /\ coord' = s.coord
           /\ segs' = s.segs
    /\ cancelHist' = Cancelled(cancelHist, d)
    /\ UNCHANGED <<varsAside, now, lastUpdate, received, recomputed, filePos, mgrActive, speeds, lateStart, probed, futures, bytesDl, pool, meta, scratch, handles, outPaths,
                   dest, call, shut, finalizeCalls>>

\* engine.py 332-343, under the lock
ShutdownClear ==
    /\ shut \in {"idle", "cleanup", "returned"}
    /\ coord' = [d \in Ids |->
                    IF d \in DOMAIN active
                    THEN CancelCoord(coord[d], Get(futures, d, {}))
                    ELSE coord[d]]
    /\ segs' = [d \in Ids |->
                    IF d \in DOMAIN active
                    THEN CancelSegs(segs[d], Get(futures, d, {}))
                    ELSE segs[d]]
    /\ active' = EmptyMap
    /\ futures' = EmptyMap
    /\ bytesDl' = EmptyMap
    /\ speeds' = EmptyMap
    /\ lastUpdate' = EmptyMap
    /\ shut' = IF shut = "returned" THEN "cleared_again" ELSE "cleared"
    /\ UNCHANGED <<varsAside, now, received, recomputed, filePos, mgrActive, lateStart, probed, pool, meta, scratch, handles, outPaths, dest, call,
                   finalizeCalls, cancelHist>>

\* engine.py 346: executor.shutdown(cancel_futures=True) refuses new tasks
\* and cancels every task still queued
ShutdownExecutor ==
    /\ shut \in {"cleared", "cleared_again"}
    /\ pool' = "shutdown"
    /\ coord' = [d \in Ids |-> CancelCoord(coord[d], {0})]
    /\ segs' = [d \in Ids |-> CancelSegs(segs[d], 1..Len(segs[d]))]
    /\ shut' = IF shut = "cleared" THEN "waiting" ELSE "waiting_again"
    /\ UNCHANGED <<varsAside, now, lastUpdate, received, recomputed, filePos, mgrActive, speeds, lateStart, probed, active, futures, bytesDl, meta, scratch, handles, outPaths,
                   dest, call, finalizeCalls, cancelHist>>

\* engine.py 346: executor.shutdown(wait=True) returns once no task runs
ShutdownReturn ==
    /\ shut \in {"waiting", "waiting_again"}
    /\ Running = 0
    /\ shut' = IF shut = "waiting" THEN "returned" ELSE "returned_again"
    /\ UNCHANGED <<varsAside, now, lastUpdate, received, recomputed, filePos, mgrActive, speeds, lateStart, probed, active, futures, bytesDl, pool, meta, scratch, handles,
                   outPaths, dest, call, coord, segs, finalizeCalls, cancelHist>>


(***************************************************************************)
(* get_bytes_downloaded and verify_checksum, on a caller's thread          *)
(***************************************************************************)

\* engine.py 324-325
get_bytes_downloaded(d) == Get(bytesDl, d, 0)

\* os.path.exists(output_path): the file the download moved there, or the
\* file that was there before the download started
DestExists(d) == d \in DOMAIN dest \/ d \in preexisting

\* filesystem.py 112-128: the outcome of verify_checksum(d, algorithm,
\* expected); `supported` is whether hashlib has the algorithm.  A call that
\* returns yields the boolean of the digest comparison.
verify_checksum(d, supported) ==
    IF d \notin outPaths
    THEN [raised |-> TRUE, error |-> "No output path found"]
    ELSE IF ~supported
    THEN [raised |-> TRUE, error |-> "Unsupported hash algorithm"]
    ELSE IF ~DestExists(d)
    THEN [raised |-> TRUE, error |-> "Output file not found"]
    ELSE [raised |-> FALSE, error |-> "None"]

(***************************************************************************)
(* The DownloadManager facade, on a caller's thread                        *)
(***************************************************************************)

\* what the manager's cancel operations read and write
ManagerView == [mgr |-> mgrActive, eng |-> EngineView]

\* download_manager.py 126-128
Manager_cancel_download(m, d) ==
    IF d \in DOMAIN m.mgr
    THEN [mgr |-> [m.mgr EXCEPT ![d] = FALSE], eng |-> cancel_download(m.eng, d)]
    ELSE m

RECURSIVE CancelEach(_, _)
\* download_manager.py 134-135: the loop over list(self._active_downloads.keys())
CancelEach(m, keys) ==
    IF keys = {} THEN m
    ELSE LET d == CHOOSE x \in keys : \A y \in keys : x <= y
         IN  CancelEach(Manager_cancel_download(m, d), keys \ {d})

\* download_manager.py 130-135
cancel_all(m) == CancelEach(m, DOMAIN m.mgr)

RECURSIVE CancelledEach(_, _)
CancelledEach(hist, keys) ==
    IF keys = {} THEN hist
    ELSE LET d == CHOOSE x \in keys : TRUE
         IN  CancelledEach(Cancelled(hist, d), keys \ {d})

\* download_manager.py 50-52: engine.start_download has returned the id;
\* record it
MgrRegister(d) ==
    /\ call[d] = "returned"
    /\ mgrActive' = Put(mgrActive, d, TRUE)
    /\ call' = [call EXCEPT ![d] = "registered"]
    /\ UNCHANGED <<varsAside, now, lastUpdate, received, recomputed, filePos, active, futures, bytesDl, pool, meta, scratch, handles, outPaths,
                   dest, coord, segs, shut, finalizeCalls, cancelHist, speeds, lateStart, probed>>

MgrCancelDownloadMarking(d) ==
    /\ LET m == Manager_cancel_download(ManagerView, d)
       IN  /\ mgrActive' = m.mgr
           /\ active' = m.eng.active
           /\ coord' = m.eng.coord
           /\ segs' = m.eng.segs
    /\ cancelHist' = IF d \in DOMAIN mgrActive THEN Cancelled(cancelHist, d) ELSE cancelHist
    /\ meta' = IF d \in DOMAIN mgrActive /\ d \in DOMAIN meta
               THEN [meta EXCEPT ![d].status = "cancelled"]
               ELSE meta
    /\ UNCHANGED <<varsAside, now, lastUpdate, received, recomputed, filePos, futures, bytesDl, pool, scratch, handles, outPaths,
                   dest, call, shut, finalizeCalls, speeds, lateStart, probed>>

\* DownloadManager.cancel_download(d), for any id, known to the manager or not
MgrCancelDownload(d) ==
    /\ LET m == Manager_cancel_download(ManagerView, d)
       IN  /\ mgrActive' = m.mgr
           /\ active' = m.eng.active
           /\ coord' = m.eng.coord
           /\ segs' = m.eng.segs
    /\ cancelHist' = IF d \in DOMAIN mgrActive THEN Cancelled(cancelHist, d) ELSE cancelHist
    /\ UNCHANGED <<varsAside, now, lastUpdate, received, recomputed, filePos, futures, bytesDl, pool, meta, scratch, handles, outPaths,
                   dest, call, shut, finalizeCalls, speeds, lateStart, probed>>

\* DownloadManager.cancel_all()
MgrCancelAll ==
    /\ LET m == cancel_all(ManagerView)
       IN  /\ mgrActive' = m.mgr
           /\ active' = m.eng.active
           /\ coord' = m.eng.coord
           /\ segs' = m.eng.segs
    /\ cancelHist' = CancelledEach(cancelHist, DOMAIN mgrActive)
    /\ UNCHANGED <<varsAside, now, lastUpdate, received, recomputed, filePos, futures, bytesDl, pool, meta, scratch, handles, outPaths,
                   dest, call, shut, finalizeCalls, speeds, lateStart, probed>>

\* download_manager.py 141-145: cleanup() runs cancel_all() and goes on to
\* engine.shutdown() (ShutdownClear, ShutdownExecutor, ShutdownReturn)
MgrCleanup ==
    /\ shut = "idle"
    /\ LET m == cancel_all(ManagerView)
       IN  /\ mgrActive' = m.mgr
           /\ active' = m.eng.active
           /\ coord' = m.eng.coord
           /\ segs' = m.eng.segs
    /\ cancelHist' = CancelledEach(cancelHist, DOMAIN mgrActive)
    /\ shut' = "cleanup"
    /\ UNCHANGED <<varsAside, now, lastUpdate, received, recomputed, filePos, futures, bytesDl, pool, meta, scratch, handles, outPaths,
                   dest, call, finalizeCalls, speeds, lateStart, probed>>

(***************************************************************************)
(* The coordinator task, _download_task, on a pool thread                  *)
(***************************************************************************)

\* A task that has ended keeps its outcome only: the transport's counters of
\* a fetch are gone with the fetch.
Ended(seg, outcome) ==
    [seg EXCEPT !.st = outcome, !.nchunks = 0, !.nprog = 0, !.wr = 0,
                !.got = IF outcome = "ok" THEN @ ELSE 0]

\* engine.py 267-270: the handler only logs and re-raises, so an exception
\* anywhere in the try block leads to the finally block
Raise(c) == [c EXCEPT !.pc = "finally", !.err = TRUE]

NewSegment(r) ==
    [start |-> r.start, end |-> r.end, st |-> "pending",
     got |-> 0, nchunks |-> 0, nprog |-> 0, wr |-> 0]

Finished == {"ok", "skipped", "failed", "cancelled"}

ResultRaisesOnCancelOnly(st) == st = "cancelled"

\* engine.py 251: future.result() re-raises the task's exception, or
\* CancelledError for a cancelled future
ResultRaises(st) == st \in {"failed", "cancelled"}

\* engine.py 220-229: a worker takes the task; probe the size again and
\* compute the plan from this second result
CoordProbe(d) ==
    /\ coord[d].pc = "queued"
    /\ WorkerFree
    /\ \E size \in remote :
        coord' = [coord EXCEPT ![d] =
                    IF size <= 0
                    THEN Raise(@)
                    ELSE [@ EXCEPT !.pc = "submit_check",
                                   !.total = size,
                                   !.plan = Plan(size)]]
    /\ UNCHANGED <<varsAside, now, lastUpdate, received, recomputed, filePos, mgrActive, speeds, lateStart, probed, active, futures, bytesDl, pool, meta, scratch, handles,
                   outPaths, dest, call, segs, shut, finalizeCalls, cancelHist>>

\* engine.py 232-234: the loop head and the active check
CoordSubmitCheck(d) ==
    /\ coord[d].pc = "submit_check"
    /\ coord' = [coord EXCEPT ![d].pc =
                    IF Len(segs[d]) < Len(coord[d].plan) /\ IsActive(d)
                    THEN "submit_do"
                    ELSE "wait_check"]
    /\ UNCHANGED <<varsAside, now, lastUpdate, received, recomputed, filePos, mgrActive, speeds, lateStart, probed, active, futures, bytesDl, pool, meta, scratch, handles,
                   outPaths, dest, call, segs, shut, finalizeCalls, cancelHist>>

\* engine.py 235-244: submit the next segment and record its future
CoordSubmitDo(d) ==
    /\ coord[d].pc = "submit_do"
    /\ IF pool = "shutdown"
       THEN /\ coord' = [coord EXCEPT ![d] = Raise(@)]
            /\ UNCHANGED <<segs, futures>>
       ELSE /\ segs' = [segs EXCEPT ![d] =
                          Append(@, NewSegment(coord[d].plan[Len(@) + 1]))]
            /\ IF d \in DOMAIN futures
               THEN /\ futures' = [futures EXCEPT ![d] = @ \cup {Len(segs[d]) + 1}]
                    /\ coord' = [coord EXCEPT ![d].pc = "submit_check"]
               ELSE \* KeyError at line 244
                    /\ coord' = [coord EXCEPT ![d] = Raise(@)]
                    /\ UNCHANGED futures
    /\ UNCHANGED <<varsAside, now, lastUpdate, received, recomputed, filePos, mgrActive, speeds, lateStart, probed, active, bytesDl, pool, meta, scratch, handles, outPaths,
                   dest, call, shut, finalizeCalls, cancelHist>>

\* engine.py 248-250: the loop head and the active check
CoordWaitCheck(d) ==
    /\ coord[d].pc = "wait_check"
    /\ coord' = [coord EXCEPT ![d].pc =
                    IF coord[d].j <= Len(segs[d]) /\ IsActive(d)
                    THEN "wait_result"
                    ELSE "final_check"]
    /\ UNCHANGED <<varsAside, now, lastUpdate, received, recomputed, filePos, mgrActive, speeds, lateStart, probed, active, futures, bytesDl, pool, meta, scratch, handles,
                   outPaths, dest, call, segs, shut, finalizeCalls, cancelHist>>

\* engine.py 251-255: future.result() blocks until the task has finished
CoordWaitResult(d) ==
    /\ coord[d].pc = "wait_result"
    /\ segs[d][coord[d].j].st \in Finished
    /\ IF ResultRaises(segs[d][coord[d].j].st)
       THEN /\ active' = Put(active, d, FALSE)
            /\ coord' = [coord EXCEPT ![d] = Raise(@)]
       ELSE /\ coord' = [coord EXCEPT ![d].pc = "wait_check", ![d].j = @ + 1]
            /\ UNCHANGED active
    /\ UNCHANGED <<varsAside, now, lastUpdate, received, recomputed, filePos, mgrActive, speeds, lateStart, probed, futures, bytesDl, pool, meta, scratch, handles, outPaths,
                   dest, call, segs, shut, finalizeCalls, cancelHist>>

\* engine.py 258
CoordFinalCheck(d) ==
    /\ coord[d].pc = "final_check"
    /\ coord' = [coord EXCEPT ![d].pc = IF IsActive(d) THEN "assemble" ELSE "finally"]
    /\ UNCHANGED <<varsAside, now, lastUpdate, received, recomputed, filePos, mgrActive, speeds, lateStart, probed, active, futures, bytesDl, pool, meta, scratch, handles,
                   outPaths, dest, call, segs, shut, finalizeCalls, cancelHist>>

\* engine.py 260, 262-265 and filesystem.py 67-95: close the handle, move
\* the scratch file to the destination and remove the scratch directory;
\* `moved` is whether makedirs and shutil.move succeed
CoordAssemble(d) ==
    /\ coord[d].pc = "assemble"
    /\ finalizeCalls' = [finalizeCalls EXCEPT ![d] = @ + 1]
    /\ handles' = handles \ {d}
    /\ filePos' = Pop(filePos, d)
    /\ \E moved \in BOOLEAN :
        IF moved /\ d \in DOMAIN scratch
        THEN /\ dest' = Put(dest, d, scratch[d])
             /\ scratch' = Pop(scratch, d)
             /\ outPaths' = outPaths \cup {d}
             /\ coord' = [coord EXCEPT ![d].pc = "mark"]
             /\ UNCHANGED active
        ELSE /\ active' = Put(active, d, FALSE)
             /\ coord' = [coord EXCEPT ![d] = Raise(@)]
             /\ UNCHANGED <<dest, scratch, outPaths>>
    /\ UNCHANGED <<varsAside, now, lastUpdate, received, recomputed, mgrActive, speeds, lateStart, probed, futures, bytesDl, pool, meta, call, segs, shut, cancelHist>>

\* engine.py 261 and metadata.py 106-109
CoordMark(d) ==
    /\ coord[d].pc = "mark"
    /\ IF d \in DOMAIN meta
       THEN /\ meta' = [meta EXCEPT ![d] = mark_complete(@)]
            /\ coord' = [coord EXCEPT ![d].pc = "finally"]
       ELSE /\ coord' = [coord EXCEPT ![d] = Raise(@)]
            /\ UNCHANGED meta
    /\ UNCHANGED <<varsAside, now, lastUpdate, received, recomputed, filePos, mgrActive, speeds, lateStart, probed, active, futures, bytesDl, pool, scratch, handles, outPaths,
                   dest, call, segs, shut, finalizeCalls, cancelHist>>

\* engine.py 271-285: drop the bookkeeping and cancel the futures
CoordFinally(d) ==
    /\ coord[d].pc = "finally"
    /\ active' = Pop(active, d)
    /\ bytesDl' = Pop(bytesDl, d)
    /\ futures' = Pop(futures, d)
    /\ speeds' = Pop(speeds, d)
    /\ lastUpdate' = Pop(lastUpdate, d)
    /\ segs' = [segs EXCEPT ![d] = CancelSegs(@, 1..Len(@))]
    /\ coord' = [coord EXCEPT ![d].pc = "done"]
    /\ UNCHANGED <<varsAside, now, received, recomputed, filePos, mgrActive, lateStart, probed, pool, meta, scratch, handles, outPaths, dest, call, shut,
                   finalizeCalls, cancelHist>>


(***************************************************************************)
(* A segment task, _download_segment, on a pool thread                     *)
(***************************************************************************)

\* a plan never has more than TargetSegments + 1 ranges
SegIndices == 1..(TargetSegments + 1)

\* the lengths the transport may give the next data chunk of a body of
\* which `remaining` bytes are still to come
ChunkSizes(remaining, nchunks) ==
    IF nchunks + 1 >= MaxChunks
    THEN {remaining}
    ELSE {remaining} \cup ({remaining \div 2} \ {0})

\* 0.1 s (engine.py 152 and 175), the clock ticking every 50 ms
UpdateInterval == 2

\* the last clock value tried
MaxTime == 4

\* what the speed computation reads and writes
SpeedView == [speeds |-> speeds, last |-> lastUpdate]

SpeedDueAtOnce(time_diff) == time_diff >= 1

\* engine.py 152 and 175: if current_time - last_time >= 0.1
SpeedDue(time_diff) == time_diff >= UpdateInterval

\* engine.py 150-157 and 173-180, under the lock: `amount` is len(data) in
\* write_callback and `downloaded` in progress_callback; without an entry
\* in _last_update_time last_time is current_time and nothing is stored
Sample(s, d, amount, current_time) ==
    LET last_time == Get(s.last, d, current_time)
        time_diff == current_time - last_time
    IN  IF SpeedDue(time_diff) /\ time_diff > 0
        THEN [speeds |-> Put(s.speeds, d, <<amount, time_diff>>),
              last   |-> Put(s.last, d, current_time)]
        ELSE s

\* history: a recomputation of d's speed is noted with its time and the
\* bytes received by then
Noted(rec, d, s, bytes) ==
    IF s = SpeedView THEN rec
    ELSE [rec EXCEPT ![d] = Append(@, [at |-> now, bytes |-> bytes])]

\* the clock moves on by one tick
Tick ==
    /\ now < MaxTime
    /\ now' = now + 1
    /\ UNCHANGED <<varsAside, active, futures, bytesDl, pool, meta, scratch, handles,
                   outPaths, dest, call, coord, segs, shut, finalizeCalls, cancelHist,
                   speeds, lateStart, probed, mgrActive, filePos, lastUpdate,
                   received, recomputed>>

\* engine.py 146: the offset write_callback passes to write_segment
WriteOffset(seg) == seg.start

\* engine.py 127-128: a worker takes the task; it returns at once when the
\* download is not active
SegStart(d, k) ==
    /\ k <= Len(segs[d])
    /\ segs[d][k].st = "pending"
    /\ WorkerFree
    /\ segs' = [segs EXCEPT ![d][k].st = IF IsActive(d) THEN "fetching" ELSE "skipped"]
    /\ UNCHANGED <<varsAside, now, lastUpdate, received, recomputed, filePos, mgrActive, speeds, lateStart, probed, active, futures, bytesDl, pool, meta, scratch, handles,
                   outPaths, dest, call, coord, shut, finalizeCalls, cancelHist>>

\* engine.py 142-146 and filesystem.py 46-50: the transport hands
\* write_callback a chunk of n bytes; write_segment finds the open handle
\* and moves its position to the offset.  The callback returns 0 when the
\* download is not active or write_segment raises for want of a handle;
\* that aborts the transfer, perform() raises and the task fails (203-206).
\* The active check and the seek are one step: what another thread does
\* between them has the same effect when done before the check.
SegWriteCheck(d, k) ==
    /\ k <= Len(segs[d])
    /\ segs[d][k].st = "fetching"
    /\ segs[d][k].wr = 0
    /\ overlap \/ \A j \in 1..Len(segs[d]) : segs[d][j].wr = 0
    /\ segs[d][k].got < SegLen(segs[d][k])
    /\ \E n \in ChunkSizes(SegLen(segs[d][k]) - segs[d][k].got, segs[d][k].nchunks) :
        IF IsActive(d) /\ d \in handles
        THEN /\ segs' = [segs EXCEPT ![d][k].wr = n]
             /\ filePos' = Put(filePos, d, WriteOffset(segs[d][k]))
        ELSE /\ segs' = [segs EXCEPT ![d][k] = Ended(@, "failed")]
             /\ UNCHANGED filePos
    /\ UNCHANGED <<varsAside, now, lastUpdate, received, recomputed, mgrActive, speeds, lateStart, probed, active, futures, bytesDl, pool, meta, scratch, handles,
                   outPaths, dest, call, coord, shut, finalizeCalls, cancelHist>>

\* filesystem.py 52-57 and engine.py 147-160: write the chunk where the
\* handle's position is now, which moves on by its length, and count its
\* bytes; the chunk holds the remote bytes start+got .. start+got+wr-1.
\* Nothing keeps another task of the download from moving the position
\* between this task's seek (SegWriteCheck) and its write.
SegWrite(d, k) ==
    /\ k <= Len(segs[d])
    /\ segs[d][k].st = "fetching"
    /\ segs[d][k].wr > 0
    /\ IF d \in handles /\ d \in DOMAIN scratch
       THEN /\ scratch' = [scratch EXCEPT ![d] =
                             SeekWrite(@, filePos[d],
                                       segs[d][k].start + segs[d][k].got,
                                       segs[d][k].wr)]
            /\ filePos' = [filePos EXCEPT ![d] = @ + segs[d][k].wr]
            /\ bytesDl' = Put(bytesDl, d, Get(bytesDl, d, 0) + segs[d][k].wr)
            /\ received' = [received EXCEPT ![d] = @ + segs[d][k].wr]
            /\ LET s == Sample(SpeedView, d, segs[d][k].wr, now)
               IN  /\ speeds' = s.speeds
                   /\ lastUpdate' = s.last
                   /\ recomputed' = Noted(recomputed, d, s, received[d] + segs[d][k].wr)
            /\ segs' = [segs EXCEPT ![d][k] =
                          [@ EXCEPT !.got = @ + segs[d][k].wr,
                                    !.nchunks = @ + 1,
                                    !.wr = 0]]
       ELSE \* f.write raises on a closed file, the callback returns 0
            /\ segs' = [segs EXCEPT ![d][k] = Ended(@, "failed")]
            /\ UNCHANGED <<scratch, bytesDl, speeds, filePos, lastUpdate, received, recomputed>>
    /\ UNCHANGED <<varsAside, now, mgrActive, lateStart, probed, active, futures, pool, meta, handles, outPaths, dest, call,
                   coord, shut, finalizeCalls, cancelHist>>

\* engine.py 165-183 and metadata.py 61-69: the transport calls
\* progress_callback with download_total 0 (not known yet) or the length of
\* the body; returning 1 aborts the transfer
SegProgress(d, k) ==
    /\ k <= Len(segs[d])
    /\ segs[d][k].st = "fetching"
    /\ segs[d][k].wr = 0
    /\ ~IsActive(d) \/ segs[d][k].nprog < MaxProgress
    /\ \E download_total \in {0, SegLen(segs[d][k])} :
        IF ~IsActive(d)
        THEN /\ segs' = [segs EXCEPT ![d][k] = Ended(@, "failed")]
             /\ UNCHANGED <<meta, speeds, lastUpdate, recomputed>>
        ELSE IF download_total > 0 /\ d \in DOMAIN meta
        THEN /\ meta' = [meta EXCEPT ![d] =
                           update_progress(@, segs[d][k].start, segs[d][k].end)]
             /\ segs' = [segs EXCEPT ![d][k].nprog = @ + 1]
             /\ LET s == Sample(SpeedView, d, segs[d][k].got, now)
                IN  /\ speeds' = s.speeds
                    /\ lastUpdate' = s.last
                    /\ recomputed' = Noted(recomputed, d, s, received[d])
        ELSE UNCHANGED <<meta, segs, speeds, lastUpdate, recomputed>>
    /\ UNCHANGED <<varsAside, now, received, filePos, mgrActive, lateStart, probed, active, futures, bytesDl, pool, scratch, handles, outPaths,
                   dest, call, coord, shut, finalizeCalls, cancelHist>>

\* engine.py 196-201: perform() returns with the whole body received and
\* status 200 or 206
SegFinish(d, k) ==
    /\ k <= Len(segs[d])
    /\ segs[d][k].st = "fetching"
    /\ segs[d][k].wr = 0
    /\ segs[d][k].got = SegLen(segs[d][k])
    /\ segs' = [segs EXCEPT ![d][k] = Ended(@, "ok")]
    /\ UNCHANGED <<varsAside, now, lastUpdate, received, recomputed, filePos, mgrActive, speeds, lateStart, probed, active, futures, bytesDl, pool, meta, scratch, handles,
                   outPaths, dest, call, coord, shut, finalizeCalls, cancelHist>>

\* engine.py 196-206: perform() raises (connection lost, stall, timeout)
\* or the status is neither 200 nor 206
SegFail(d, k) ==
    /\ k <= Len(segs[d])
    /\ segs[d][k].st = "fetching"
    /\ segs[d][k].wr = 0
    /\ segs' = [segs EXCEPT ![d][k] = Ended(@, "failed")]
    /\ UNCHANGED <<varsAside, now, lastUpdate, received, recomputed, filePos, mgrActive, speeds, lateStart, probed, active, futures, bytesDl, pool, meta, scratch, handles,
                   outPaths, dest, call, coord, shut, finalizeCalls, cancelHist>>

(***************************************************************************)
(* Specifications                                                          *)
(***************************************************************************)
\* the operations of the engine; the clock stands still (Tick is a step of
\* SpecSpeed), so these runs are the ones over within 100 ms of their start
NextEngine ==
    \/ \E d \in Ids : StartDownload(d)
    \/ \E d \in Ids : StartRecord(d)
    \/ \E d \in Ids : CancelDownload(d)
    \/ ShutdownClear
    \/ ShutdownExecutor
    \/ ShutdownReturn
    \/ \E d \in Ids : CoordProbe(d)
    \/ \E d \in Ids : CoordSubmitCheck(d)
    \/ \E d \in Ids : CoordSubmitDo(d)
    \/ \E d \in Ids : CoordWaitCheck(d)
    \/ \E d \in Ids : CoordWaitResult(d)
    \/ \E d \in Ids : CoordFinalCheck(d)
    \/ \E d \in Ids : CoordAssemble(d)
    \/ \E d \in Ids : CoordMark(d)
    \/ \E d \in Ids : CoordFinally(d)
    \/ \E d \in Ids : \E k \in SegIndices : SegStart(d, k)
    \/ \E d \in Ids : \E k \in SegIndices : SegWriteCheck(d, k)
    \/ \E d \in Ids : \E k \in SegIndices : SegWrite(d, k)
    \/ \E d \in Ids : \E k \in SegIndices : SegProgress(d, k)
    \/ \E d \in Ids : \E k \in SegIndices : SegFinish(d, k)
    \/ \E d \in Ids : \E k \in SegIndices : SegFail(d, k)

\* no download is started
IdleEnv ==
    /\ startable = {}
    /\ remote = {}
    /\ preexisting = {}
    /\ workers = max_workers
    /\ overlap = FALSE

\* one download, every probe result, nothing at the destination path; of
\* the runs in which two segment tasks are inside write_segment at the same
\* time (SpecRace has them) only those where one has not yet sought when
\* the other writes
EnvOne ==
    /\ startable = {1}
    /\ remote = ProbeResults
    /\ preexisting = {}
    /\ workers = max_workers
    /\ overlap = FALSE

IdleRetry ==
    /\ rtMax = 0
    /\ rtPc = "idle"
    /\ rtAttempt = 0
    /\ rtLastError = 0
    /\ rtResult = Running0
    /\ rtLog = <<>>

Init == InitEngine /\ EnvOne /\ IdlePlan /\ IdleLedger /\ IdleRetry

Next == NextEngine

Spec == Init /\ [][Next]_vars

\* one download of a small resource, started, cancelled and cleaned up
\* through the DownloadManager facade
EnvManager ==
    /\ startable = {1}
    /\ remote = ManagerProbeResults
    /\ preexisting = {}
    /\ workers = max_workers
    /\ overlap = TRUE

InitM == InitEngine /\ EnvManager /\ IdlePlan /\ IdleLedger /\ IdleRetry

NextManager ==
    \/ \E d \in Ids : StartDownload(d)
    \/ \E d \in Ids : StartRecord(d)
    \/ \E d \in Ids : MgrRegister(d)
    \/ \E d \in Ids : MgrCancelDownload(d)
    \/ MgrCancelAll
    \/ MgrCleanup
    \/ ShutdownClear
    \/ ShutdownExecutor
    \/ ShutdownReturn
    \/ \E d \in Ids : CoordProbe(d)
    \/ \E d \in Ids : CoordSubmitCheck(d)
    \/ \E d \in Ids : CoordSubmitDo(d)
    \/ \E d \in Ids : CoordWaitCheck(d)
    \/ \E d \in Ids : CoordWaitResult(d)
    \/ \E d \in Ids : CoordFinalCheck(d)
    \/ \E d \in Ids : CoordAssemble(d)
    \/ \E d \in Ids : CoordMark(d)
    \/ \E d \in Ids : CoordFinally(d)
    \/ \E d \in Ids : \E k \in SegIndices : SegStart(d, k)
    \/ \E d \in Ids : \E k \in SegIndices : SegWriteCheck(d, k)
    \/ \E d \in Ids : \E k \in SegIndices : SegWrite(d, k)
    \/ \E d \in Ids : \E k \in SegIndices : SegProgress(d, k)
    \/ \E d \in Ids : \E k \in SegIndices : SegFinish(d, k)
    \/ \E d \in Ids : \E k \in SegIndices : SegFail(d, k)

SpecManager == InitM /\ [][NextManager]_vars

\* two downloads of a small resource on one engine
EnvTwo ==
    /\ startable = {1, 2}
    /\ remote = TwoProbeResults
    /\ preexisting = {}
    /\ workers = max_workers
    /\ overlap = TRUE

InitTwo == InitEngine /\ EnvTwo /\ IdlePlan /\ IdleLedger /\ IdleRetry

NextTwo ==
    \/ \E d \in Ids : StartDownload(d)
    \/ \E d \in Ids : StartRecord(d)
    \/ \E d \in Ids : CancelDownload(d)
    \/ \E d \in Ids : CoordProbe(d)
    \/ \E d \in Ids : CoordSubmitCheck(d)
    \/ \E d \in Ids : CoordSubmitDo(d)
    \/ \E d \in Ids : CoordWaitCheck(d)
    \/ \E d \in Ids : CoordWaitResult(d)
    \/ \E d \in Ids : CoordFinalCheck(d)
    \/ \E d \in Ids : CoordAssemble(d)
    \/ \E d \in Ids : CoordMark(d)
    \/ \E d \in Ids : CoordFinally(d)
    \/ \E d \in Ids : \E k \in SegIndices : SegStart(d, k)
    \/ \E d \in Ids : \E k \in SegIndices : SegWriteCheck(d, k)
    \/ \E d \in Ids : \E k \in SegIndices : SegWrite(d, k)
    \/ \E d \in Ids : \E k \in SegIndices : SegProgress(d, k)
    \/ \E d \in Ids : \E k \in SegIndices : SegFinish(d, k)
    \/ \E d \in Ids : \E k \in SegIndices : SegFail(d, k)

SpecTwo == InitTwo /\ [][NextTwo]_vars

\* one download of a small resource, with or without a file at its
\* destination path beforehand
EnvDest ==
    /\ startable = {1}
    /\ remote = DestProbeResults
    /\ preexisting \in SUBSET startable
    /\ workers = max_workers
    /\ overlap = TRUE

InitDest == InitEngine /\ EnvDest /\ IdlePlan /\ IdleLedger /\ IdleRetry

SpecDest == InitDest /\ [][NextEngine]_vars

\* largest pool size tried
MaxPoolSize == 3

\* the probe results of the runs with pools of several sizes
PoolProbeResults == {1}

\* one or two downloads of a small resource on an engine whose pool has
\* 1 to MaxPoolSize workers; nobody cancels and nobody shuts down
EnvPool ==
    /\ startable \in {{1}, {1, 2}}
    /\ remote = PoolProbeResults
    /\ preexisting = {}
    /\ workers \in 1..MaxPoolSize
    /\ overlap = TRUE

InitPool == InitEngine /\ EnvPool /\ IdlePlan /\ IdleLedger /\ IdleRetry

\* a step of the coordinator task of d
CoordStep(d) ==
    \/ CoordProbe(d)
    \/ CoordSubmitCheck(d)
    \/ CoordSubmitDo(d)
    \/ CoordWaitCheck(d)
    \/ CoordWaitResult(d)
    \/ CoordFinalCheck(d)
    \/ CoordAssemble(d)
    \/ CoordMark(d)
    \/ CoordFinally(d)

\* a step of the k-th segment task of d
SegStep(d, k) ==
    \/ SegStart(d, k)
    \/ SegWriteCheck(d, k)
    \/ SegWrite(d, k)
    \/ SegProgress(d, k)
    \/ SegFinish(d, k)
    \/ SegFail(d, k)

NextPool ==
    \/ \E d \in Ids : StartDownload(d)
    \/ \E d \in Ids : StartRecord(d)
    \/ \E d \in Ids : CoordStep(d)
    \/ \E d \in Ids : \E k \in SegIndices : SegStep(d, k)

\* the executor runs a queued task as soon as a worker is free, a running
\* task goes on, and a fetch comes to an end
FairPool ==
    /\ \A d \in Ids : WF_vars(CoordStep(d))
    /\ \A d \in Ids : \A k \in SegIndices : WF_vars(SegStep(d, k))

SpecPool == InitPool /\ [][NextPool]_vars /\ FairPool

\* the probe results of the runs with overlapping writes: two segments
RaceProbeResults == {MiB + 1}

\* one download of a resource of two segments, whose tasks call
\* write_segment on the shared handle in every interleaving; nobody cancels
\* and nobody shuts down
EnvRace ==
    /\ startable = {1}
    /\ remote = RaceProbeResults
    /\ preexisting = {}
    /\ workers = max_workers
    /\ overlap = TRUE

InitRace == InitEngine /\ EnvRace /\ IdlePlan /\ IdleLedger /\ IdleRetry

SpecRace == InitRace /\ [][NextPool]_vars

\* the probe results of the runs with a moving clock
SpeedProbeResults == {3}

\* one download of a small resource while the clock moves on; nobody
\* cancels and nobody shuts down
EnvSpeed ==
    /\ startable = {1}
    /\ remote = SpeedProbeResults
    /\ preexisting = {}
    /\ workers = max_workers
    /\ overlap = TRUE

InitSpeed == InitEngine /\ EnvSpeed /\ IdlePlan /\ IdleLedger /\ IdleRetry

NextSpeed ==
    \/ NextPool
    \/ Tick

SpecSpeed == InitSpeed /\ [][NextSpeed]_vars

InitR == InitRetry /\ InitEngine /\ IdleEnv /\ IdlePlan /\ IdleLedger

NextRetry ==
    \/ RetryAttempt
    \/ RetrySleep
    \/ RetryExit

SpecRetry == InitR /\ [][NextRetry]_vars

InitP == InitPlan /\ InitEngine /\ IdleEnv /\ IdleLedger /\ IdleRetry

NextPlan == RunPlan

SpecPlan == InitP /\ [][NextPlan]_vars

NextLedger ==
    \/ \E t \in LedgerThreads : LedgerGet(t)
    \/ \E t \in LedgerThreads : LedgerAdd(t)
    \/ \E t \in LedgerThreads : LedgerSave(t)

InitL == InitLedger /\ InitEngine /\ IdleEnv /\ IdlePlan /\ IdleRetry

SpecLedger == InitL /\ [][NextLedger]_vars


(***************************************************************************)
(* Properties                                                              *)
(***************************************************************************)

AllSegmentsSucceeded(d) ==
    /\ coord[d].plan # <<>>
    /\ Len(segs[d]) = Len(coord[d].plan)
    /\ \A k \in 1..Len(segs[d]) : segs[d][k].st = "ok"

SomeSegmentFailed(d) == \E k \in 1..Len(segs[d]) : segs[d][k].st = "failed"

\* C1: the k-th byte a segment task for [start, end] has received lies at
\* scratch-file offset start+k, however the body is cut into chunks; and
\* when all segments of a download have succeeded the finalized file has
\* size total_size and holds the remote resource's byte i at every offset i.
C1_BytesAtTheirOffsets ==
    \A d \in Ids :
        /\ d \in DOMAIN scratch =>
              \A k \in 1..Len(segs[d]) :
                  segs[d][k].st \in {"fetching", "ok"} =>
                      RegionMatchesRemote(scratch[d], segs[d][k].start,
                                          segs[d][k].start + segs[d][k].got)
        /\ (AllSegmentsSucceeded(d) /\ d \in DOMAIN dest) =>
              /\ FileSize(dest[d]) = coord[d].total
              /\ RegionMatchesRemote(dest[d], 0, coord[d].total)

\* C2: assemble_file is invoked for a download only when every submitted
\* segment task has completed successfully; and once a segment task has
\* failed, assemble_file has not been and is never invoked, no file is at
\* the destination and is_complete is false.
C2_FinalizeOnlyAfterAllSucceed ==
    \A d \in Ids :
        /\ finalizeCalls[d] > 0 =>
              \A k \in 1..Len(segs[d]) :
                  /\ segs[d][k].st = "ok"
                  /\ segs[d][k].got = SegLen(segs[d][k])
        /\ SomeSegmentFailed(d) =>
              /\ finalizeCalls[d] = 0
              /\ d \notin DOMAIN dest
              /\ d \in DOMAIN meta => ~is_complete(meta[d])

\* a segment task failed while a sibling succeeded, and the coordinator
\* has run to its end
C2_Witness ==
    \E d \in Ids :
        /\ coord[d].pc = "done"
        /\ SomeSegmentFailed(d)
        /\ \E k \in 1..Len(segs[d]) : segs[d][k].st = "ok"

\* C3: once cancel_download(id) has returned at a moment when the
\* coordinator had not yet invoked assemble_file for id, assemble_file is
\* never invoked for id and no file appears at the destination.
C3_NoFinalizeAfterCancel ==
    \A d \in Ids :
        cancelHist[d] = "before_finalize" =>
            /\ finalizeCalls[d] = 0
            /\ d \notin DOMAIN dest

\* C4: for total_size > 1 MiB the planned ranges start at 0, are contiguous
\* and non-empty (so they do not overlap), end at total_size - 1, and every
\* range but the last is at least 1 MiB long.
C4_PlanPartitions ==
    (planDone /\ planTotal > MiB) =>
        /\ Len(planOut) >= 1
        /\ planOut[1].start = 0
        /\ \A k \in 1..Len(planOut) : planOut[k].start <= planOut[k].end
        /\ \A k \in 2..Len(planOut) : planOut[k].start = planOut[k - 1].end + 1
        /\ planOut[Len(planOut)].end = planTotal - 1
        /\ \A k \in 1..(Len(planOut) - 1) : SegLen(planOut[k]) >= MiB

\* a plan of several ranges whose last range is shorter than 1 MiB
C4_Witness ==
    /\ planDone
    /\ planTotal > MiB
    /\ Len(planOut) >= 2
    /\ SegLen(planOut[Len(planOut)]) < MiB

\* C5: for 1 <= total_size <= 1 MiB the plan is the single range
\* [0, total_size - 1].
C5_SmallPlanIsOneSegment ==
    (planDone /\ 1 <= planTotal /\ planTotal <= MiB) =>
        planOut = <<[start |-> 0, end |-> planTotal - 1]>>

\* the plan of a resource of exactly 1 MiB
C5_Witness ==
    /\ planDone
    /\ planTotal = MiB
    /\ Len(planOut) = 1

\* C6: once a download's total_size is known, 0 <= downloaded_bytes <=
\* total_size in its ledger record.
C6_BytesWithinTotal ==
    \A d \in DOMAIN meta :
        meta[d].total_size > 0 =>
            /\ 0 <= meta[d].downloaded_bytes
            /\ meta[d].downloaded_bytes <= meta[d].total_size

\* C7: when one update_progress call per range of a partition of
\* [0, total_size) has returned, whatever their interleaving, the ledger's
\* downloaded_bytes is total_size and get_progress is 100.
C7_NoLostUpdate ==
    LedgerAllDone =>
        /\ lgHeap[lgCache].downloaded_bytes = LedgerTotal
        /\ IsHundred(get_progress(lgHeap[lgCache]))

\* C8: get_progress lies in [0, 100]; it is 0 while total_size is 0, 100
\* when downloaded_bytes has reached or passed total_size, and
\* downloaded_bytes / total_size * 100 otherwise.
C8_ProgressClamped ==
    \A d \in DOMAIN meta :
        LET m == meta[d]
            p == get_progress(m)
        IN  /\ RatLeq(<<0, 1>>, p)
            /\ RatLeq(p, <<100, 1>>)
            /\ m.total_size = 0 => p[1] = 0
            /\ (m.total_size > 0 /\ m.downloaded_bytes >= m.total_size) => IsHundred(p)
            /\ (m.total_size > 0 /\ m.downloaded_bytes < m.total_size) =>
                   p = <<m.downloaded_bytes * 100, m.total_size>>

\* a ledger record whose bytes were counted more than once, past total_size
C8_Witness ==
    \E d \in DOMAIN meta :
        /\ meta[d].total_size > 0
        /\ meta[d].downloaded_bytes > meta[d].total_size
        /\ IsHundred(get_progress(meta[d]))

\* C9: a download whose status is complete has get_progress 100.
C9_CompleteMeansHundred ==
    \A d \in DOMAIN meta :
        is_complete(meta[d]) => IsHundred(get_progress(meta[d]))

\* the coordinator has run to its end after a segment task failed, and
\* nobody cancelled or shut down
EndedByFailure(d) ==
    /\ coord[d].pc = "done"
    /\ SomeSegmentFailed(d)
    /\ cancelHist[d] = "never"
    /\ shut = "idle"

\* the coordinator has ended, or was cancelled before it ran, after a
\* cancel_download that came before any finalize
EndedByCancel(d) ==
    /\ coord[d].pc \in {"done", "cancelled"}
    /\ cancelHist[d] = "before_finalize"
    /\ finalizeCalls[d] = 0

\* C10: a download ended by a segment failure has ledger status failed,
\* one ended by cancellation has ledger status cancelled.
C10_TerminalStatus ==
    \A d \in Ids :
        /\ EndedByFailure(d) => (d \in DOMAIN meta /\ meta[d].status = "failed")
        /\ EndedByCancel(d) => (d \in DOMAIN meta /\ meta[d].status = "cancelled")

TerminalStatuses == {"complete", "failed", "cancelled"}

\* C11: once a download's ledger status is terminal (complete, failed or
\* cancelled), no step of any operation changes it: not cancel_download,
\* cancel_all, cleanup, shutdown, nor a progress callback.
C11_TerminalStatusSticks ==
    [][\A d \in DOMAIN meta :
          meta[d].status \in TerminalStatuses =>
              (d \in DOMAIN meta' /\ meta'[d].status = meta[d].status)]_vars

\* a complete download that was then cancelled through the manager and
\* whose engine was shut down by cleanup()
C11_Witness ==
    \E d \in DOMAIN meta :
        /\ meta[d].status = "complete"
        /\ cancelHist[d] = "after_finalize"
        /\ Get(mgrActive, d, TRUE) = FALSE
        /\ shut = "returned"

\* C12: when the size probe of start_download fails, start_download raises
\* and neither the coordinator task nor any segment task of that download is
\* ever submitted to the pool.
C12_NoTaskAfterProbeFailure ==
    \A d \in DOMAIN probed :
        probed[d] <= 0 =>
            /\ call[d] = "raised_probe"
            /\ coord[d].pc = "none"
            /\ segs[d] = <<>>
            /\ Get(futures, d, {}) = {}

\* start_download has raised on a failed probe and the engine was then shut
\* down, which ends every task there is
C12_Witness ==
    \E d \in DOMAIN probed :
        /\ probed[d] <= 0
        /\ call[d] = "raised_probe"
        /\ shut = "returned"

\* C13: when the size probe of start_download fails, no scratch directory
\* and no scratch file of that download exists once start_download has
\* raised.
C13_NoScratchAfterProbeFailure ==
    \A d \in DOMAIN probed :
        (probed[d] <= 0 /\ call[d] = "raised_probe") =>
            /\ d \notin DOMAIN scratch
            /\ d \notin handles

\* an id no start_download has handed out
UnknownId(d) == call[d] = "new"

\* the coordinator task of d has run to its end
FinishedDownload(d) == coord[d].pc = "done"

\* C14: cancel_download(id) twice leaves the engine and the manager as
\* cancel_download(id) once does; for an unknown id and for a download that
\* has finished it changes nothing; and the same holds of cancel_all().
\* (No cancel operation has a raising path.)
C14_CancelIdempotent ==
    LET s == EngineView
        m == ManagerView
    IN  /\ \A d \in Ids :
              /\ cancel_download(cancel_download(s, d), d) = cancel_download(s, d)
              /\ Manager_cancel_download(Manager_cancel_download(m, d), d)
                     = Manager_cancel_download(m, d)
              /\ (UnknownId(d) \/ FinishedDownload(d)) =>
                     /\ cancel_download(s, d) = s
                     /\ Manager_cancel_download(m, d) = m
        /\ cancel_all(cancel_all(m)) = cancel_all(m)
        /\ (\A d \in Ids : UnknownId(d) \/ FinishedDownload(d)) => cancel_all(m) = m

\* the first shutdown() call has returned
AfterShutdown == shut \in {"returned", "cleared_again", "waiting_again", "returned_again"}

\* C15: once shutdown() has returned, whatever the interleaving with the
\* coordinator and segment tasks that were running, no task of the engine
\* runs and the engine's dictionaries (active flags, futures, speeds and
\* last-update times, byte counters) hold no entry for any download started
\* before the shutdown; this is still so during and after a second
\* shutdown() (which has no raising path).
C15_ShutdownLeavesNothing ==
    AfterShutdown =>
        /\ Running = 0
        /\ \A d \in Ids \ lateStart :
              /\ d \notin DOMAIN active
              /\ d \notin DOMAIN futures
              /\ d \notin DOMAIN speeds
              /\ d \notin DOMAIN bytesDl

\* the entry of d in the dictionary f, if any
Entry(f, d) == IF d \in DOMAIN f THEN {f[d]} ELSE {}

\* what belongs to download d: its active flag, byte counter, speed sample,
\* futures list, ledger record, scratch file, destination file and tasks
DownloadView(d) ==
    [active  |-> Entry(active, d),
     bytes   |-> Entry(bytesDl, d),
     speed   |-> Entry(speeds, d),
     futures |-> Entry(futures, d),
     ledger  |-> Entry(meta, d),
     scratch |-> Entry(scratch, d),
     dest    |-> Entry(dest, d),
     handle  |-> d \in handles,
     pos     |-> Entry(filePos, d),
     coord   |-> coord[d],
     segs    |-> segs[d]]

\* a step of cancel_download(a), of a segment task of a that fails or is
\* aborted, or of a's coordinator handling the failure or the cancellation
FailureOrCancelStep(a) ==
    \/ CancelDownload(a)
    \/ \E k \in 1..Len(segs[a]) : SegFail(a, k) \/ SegWriteCheck(a, k)
                                     \/ SegWrite(a, k) \/ SegProgress(a, k)
    \/ CoordSubmitCheck(a)
    \/ CoordWaitCheck(a)
    \/ CoordWaitResult(a)
    \/ CoordFinalCheck(a)
    \/ CoordFinally(a)

\* C16: a segment failure or a cancel_download in download a leaves the
\* active flag, byte counter, speed sample, futures list, ledger record and
\* scratch file of every other download b of the same engine as they were:
\* a step that changes anything of b is no such step of a.
C16_OtherDownloadsUntouched ==
    [][\A a \in Ids : \A b \in Ids \ {a} :
          DownloadView(b)' # DownloadView(b) => ~FailureOrCancelStep(a)]_vars

\* download 1 has ended by a segment failure or a cancellation while
\* download 2, started on the same engine, has gone on to completion
C16_Witness ==
    /\ coord[1].pc = "done"
    /\ SomeSegmentFailed(1) \/ cancelHist[1] = "before_finalize"
    /\ finalizeCalls[1] = 0
    /\ 2 \in DOMAIN meta
    /\ is_complete(meta[2])
    /\ coord[2].pc = "done"

NotFoundErrors == {"No output path found", "Output file not found"}

C18_BytesNeverDecrease ==
    [][\A d \in Ids :
          /\ get_bytes_downloaded(d)' >= get_bytes_downloaded(d)
          /\ d \in DOMAIN meta =>
                 /\ d \in DOMAIN meta'
                 /\ meta'[d].downloaded_bytes >= meta[d].downloaded_bytes]_vars

\* the calls of func made so far, in order
RetryCalls == SelectSeq(rtLog, LAMBDA e : e.ev = "call")

\* C19: for every max_retries >= 0, retry_with_backoff calls func at most
\* max_retries times, makes no call after one that succeeded and returns
\* that call's result, and returns normally only if some call succeeded.
C19_RetryCallsAndResult ==
    /\ Len(RetryCalls) <= rtMax
    /\ \A i \in 1..Len(RetryCalls) :
          RetryCalls[i].out = "ok" =>
              /\ i = Len(RetryCalls)
              /\ rtResult = [how |-> "returned", call |-> i]
    /\ rtResult.how = "returned" =>
          \E i \in 1..Len(RetryCalls) : RetryCalls[i].out = "ok"

\* C20: when the call is over and every attempt has failed, the log is
\* attempt 0, sleep 2^0 + 1, attempt 1, sleep 2^1 + 1, ..., attempt
\* max_retries - 1, with no sleep after the last attempt, and the error
\* raised is that of the last attempt.
C20_BackoffSchedule ==
    (/\ rtPc = "done"
     /\ Len(RetryCalls) >= 1
     /\ \A i \in 1..Len(RetryCalls) : RetryCalls[i].out # "ok") =>
        /\ Len(RetryCalls) = rtMax
        /\ Len(rtLog) = (2 * rtMax) - 1
        /\ \A k \in 0..(rtMax - 1) : rtLog[(2 * k) + 1].ev = "call"
        /\ \A k \in 0..(rtMax - 2) :
              /\ rtLog[(2 * k) + 2].ev = "sleep"
              /\ rtLog[(2 * k) + 2].secs = (2 ^ k) + 1
        /\ rtResult = [how |-> "raised", call |-> rtMax]

\* three attempts, all failed, the last with another kind of error than
\* the first
C20_Witness ==
    /\ rtPc = "done"
    /\ rtMax = 3
    /\ Len(RetryCalls) = 3
    /\ \A i \in 1..3 : RetryCalls[i].out # "ok"
    /\ RetryCalls[1].out # RetryCalls[3].out

\* a coordinator task that has been submitted and has not ended
CoordinatorLive(d) == coord[d].pc \in RunningPcs \cup {"queued"}

\* C21: with every fetch coming to an end and every runnable pool task being
\* run, every coordinator task that was submitted terminates, for every pool
\* size from 1 up and one or two downloads.
C21_CoordinatorsTerminate ==
    \A d \in Ids : [](CoordinatorLive(d) => <>(~CoordinatorLive(d)))

\* the extent lies inside the range of the segment task whose data it holds
InOwnRange(e, seg) ==
    /\ seg.start <= e.src
    /\ e.src + e.len - 1 <= seg.end
    /\ seg.start <= e.off
    /\ e.off + e.len - 1 <= seg.end

\* C22: whatever the interleaving of the segment tasks' write_segment calls
\* on the shared handle, every piece of data in a download's scratch file
\* lies inside the range [start, end] of the segment task that received it,
\* so no offset is written by two different segment tasks.
C22_WritesStayInOwnRange ==
    \A d \in DOMAIN scratch :
        \A e \in scratch[d] :
            \E k \in 1..Len(segs[d]) : InOwnRange(e, segs[d][k])


\* C23: once a segment fetch of a download has failed and its task has
\* ended, no segment task of that download that was still waiting for a
\* worker begins a fetch (the active flag being false by then).
C23_NoFetchAfterSiblingFailure ==
    [][\A d \in Ids :
          SomeSegmentFailed(d) =>
              \A k \in 1..Len(segs[d]) :
                  segs[d][k].st = "pending" => segs'[d][k].st # "fetching"]_vars


\* no task of the download is queued or running any more
AllTasksOver(d) ==
    /\ coord[d].pc \in {"done", "cancelled"}
    /\ \A k \in 1..Len(segs[d]) : segs[d][k].st \in Finished

\* C24: once a download has ended by a segment failure or by a cancellation
\* and none of its tasks runs any more, its scratch file (with the scratch
\* directory) is gone and no open scratch handle is kept for its id.
C24_ScratchDiscardedAfterFailure ==
    \A d \in Ids :
        ((EndedByFailure(d) \/ EndedByCancel(d)) /\ AllTasksOver(d)) =>
            (d \notin DOMAIN scratch /\ d \notin handles)


\* the edges of Initializing -> Running -> {Complete, Failed, Cancelled}
StatusEdges ==
    {<<"initializing", "running">>, <<"running", "complete">>,
     <<"running", "failed">>, <<"running", "cancelled">>}

\* C25: every change of a download's ledger status follows an edge of
\* Initializing -> Running -> {Complete, Failed, Cancelled}, so Complete is
\* never entered from Initializing, and the status is Running when a segment
\* task is submitted.
C25_StatusFollowsEdges ==
    [][\A d \in DOMAIN meta :
          /\ meta'[d].status # meta[d].status =>
                <<meta[d].status, meta'[d].status>> \in StatusEdges
          /\ Len(segs'[d]) > Len(segs[d]) => meta[d].status = "running"]_vars


\* start_download(d) has raised: the probe failed, submit was refused, or
\* the future could not be recorded
StartRaised(d) == call[d] \in {"raised", "raised_probe"}

\* C26: when start_download has raised, no coordinator task and no segment
\* task was submitted for the download, nothing was written to its scratch
\* file, it was not finalized and it is not Complete; so once the coordinator
\* task is submitted, start_download returns the id, whatever the coordinator
\* task and shutdown() do meanwhile.
C26_RaiseMeansNothingSubmitted ==
    \A d \in Ids :
        StartRaised(d) =>
            /\ coord[d].pc = "none"
            /\ segs[d] = <<>>
            /\ finalizeCalls[d] = 0
            /\ Get(scratch, d, {}) = {}
            /\ ~is_complete(meta[d])


\* C27: between two consecutive recomputations of a download's speed, by
\* the write callback or the progress callback of any of its segment tasks,
\* at least 100 ms pass.
C27_SpeedUpdatesSpaced ==
    \A d \in Ids :
        \A i \in 2..(Len(recomputed[d]) - 1) :
            recomputed[d][i + 1].at - recomputed[d][i].at >= UpdateInterval

\* the speed of download 1 has been recomputed twice, the second time
\* exactly 100 ms after the first
C27_Witness ==
    /\ Len(recomputed[1]) >= 3
    /\ recomputed[1][3].at - recomputed[1][2].at = UpdateInterval

RatEq(a, b) == a[1] * b[2] = b[1] * a[2]

\* C28: a recomputed speed is the number of bytes the download has received
\* since the previous recomputation (since the start, for the first one),
\* divided by the time passed since then.
C28_SpeedIsBytesOverWindow ==
    [][\A d \in Ids :
          (Len(recomputed[d]) >= 1 /\ Len(recomputed'[d]) > Len(recomputed[d])) =>
              LET prev == recomputed[d][Len(recomputed[d])]
              IN  RatEq(speeds'[d], <<received'[d] - prev.bytes, now' - prev.at>>)]_vars


\* C29: the size the coordinator computes a download's plan from is the
\* total_size of its ledger record, and the plan is the one of that size,
\* whatever the two size probes (at start and in the coordinator) returned.
C29_PlanSizeIsLedgerSize ==
    \A d \in Ids :
        coord[d].plan # <<>> =>
            /\ coord[d].total = meta[d].total_size
            /\ coord[d].plan = Plan(meta[d].total_size)


\* the segment size the plan of total_size is to have
StatedSegmentSize(total_size) ==
    IF total_size <= MiB
    THEN total_size
    ELSE IF total_size \div 8 >= MiB THEN total_size \div 8 ELSE MiB

\* ceil(a / b)
CeilDiv(a, b) == (a + b - 1) \div b

\* C30: with S = total_size up to 1 MiB and S = max(1 MiB, total_size div 8)
\* above, every planned segment but the last has length S, the last has a
\* length from 1 to S, and there are ceil(total_size / S) segments, never
\* more than 9.
C30_SegmentLengthsAndCount ==
    planDone /\ planTotal >= 1 =>
        LET S == StatedSegmentSize(planTotal)
            n == Len(planOut)
        IN  /\ n = CeilDiv(planTotal, S)
            /\ n >= 1
            /\ n <= 9
            /\ \A k \in 1..(n - 1) : SegLen(planOut[k]) = S
            /\ SegLen(planOut[n]) >= 1
            /\ SegLen(planOut[n]) <= S

\* a plan of nine segments whose last one is shorter than the others
C30_Witness ==
    /\ planDone
    /\ Len(planOut) = 9
    /\ SegLen(planOut[9]) < SegLen(planOut[1])

=============================================================================
